---------------------------- MODULE Spec2Model ----------------------------
(***************************************************************************)
(* Model of the four programs of onnxdump:                                 *)
(*   the metadata tool       (src/onnx_metadata.py),                       *)
(*   the two dump tools      (src/onnx_dump.py, src/onnx_dump_simple.py),  *)
(*   the graphical explorer  (src/onnx_viewer_gui.py).                     *)
(*                                                                         *)
(* A string is a sequence of one-character strings, so that splitting,     *)
(* stripping, joining and lexical comparison are computed character by     *)
(* character as Python does.                                               *)
(* The file system holds two model files and one metadata text file.       *)
(* Every command and every handler is one atomic action: the command-line  *)
(* tools are single-threaded and the explorer runs its handlers one at a   *)
(* time on the event loop.  A behaviour is a session of one program.       *)
(***************************************************************************)
EXTENDS Integers, Sequences, FiniteSets, TLC

VARIABLES
    fs,             \* model path -> the model file stored there (or NoFile)
    txt,            \* the metadata text file (or NoText)
    nops,           \* number of commands run so far
    call,           \* the last command: its arguments and the files it started from
    prev,           \* the command before it: its arguments, return code and dict
    ret,            \* return code of the last command
    metadata_dict,  \* the local metadata_dict of the last import_metadata
    stdout,         \* what the last command printed on stdout
    stderr,         \* what the last command printed on stderr
    tool,           \* the program this session runs
    console,        \* what the last run of a dump tool rendered
    file_path_edit, \* explorer: the text of the path field
    self_model,     \* explorer: self.model
    self_model_path,\* explorer: self.model_path
    overview_text,  \* explorer: the overview pane
    io_table,       \* explorer: the rows of the input/output table
    structure_tree, \* explorer: the top-level items of the structure tree
    graph_text,     \* explorer: the graph pane
    node_detail_text,\* explorer: the node detail pane
    status,         \* explorer: the status bar message
    before          \* explorer: the last load attempt and the state it started from

metaVars == <<txt, nops, call, prev, metadata_dict, stdout, stderr>>

guiVars == <<file_path_edit, self_model, self_model_path, overview_text,
             io_table, structure_tree, graph_text, node_detail_text, status,
             before>>

viewVars == <<tool, console, guiVars>>

vars == <<fs, ret, metaVars, viewVars>>

-----------------------------------------------------------------------------
(* Bounds of the model *)

MaxProps  == 3   \* longest metadata list of an initial model file
MaxChunks == 2   \* most chunks in an initial metadata text file
MaxOps    == 2   \* most commands in one behaviour
MaxRoundTrip == 2   \* longest metadata list of a round trip
MaxNodes  == 5   \* most nodes of a graph of the node family
MaxInits  == 2   \* most initializers of a graph of the initializer family
MaxRank   == 2   \* most dimensions of the input of the shape family

-----------------------------------------------------------------------------
(* Characters and strings *)

TAB == "\t"
NL  == "\n"
CR  == "\r"

Str(c) == <<c>>

\* sep.join(tokens)
RECURSIVE Join(_, _)
Join(sep, tokens) ==
    IF tokens = <<>> THEN <<>>
    ELSE IF Len(tokens) = 1 THEN Head(tokens)
    ELSE Head(tokens) \o sep \o Join(sep, Tail(tokens))

Digits == <<"0", "1", "2", "3", "4", "5", "6", "7", "8", "9">>

\* str(n) for an integer n: its decimal digits, with a minus sign when negative
RECURSIVE NatToStr(_)
NatToStr(n) ==
    IF n < 10 THEN <<Digits[n + 1]>>
    ELSE NatToStr(n \div 10) \o <<Digits[(n % 10) + 1]>>

IntToStr(n) == IF n < 0 THEN <<"-">> \o NatToStr(-n) ELSE NatToStr(n)

\* the characters of the op_type names of the model, in code point order
Alphabet == <<"A", "C", "R", "d", "e", "l", "n", "o", "u", "v">>

Ord(c) == CHOOSE i \in DOMAIN Alphabet : Alphabet[i] = c

\* a < b for two Python strings: by code point, a proper prefix comes first
RECURSIVE LexLess(_, _)
LexLess(a, b) ==
    IF b = <<>> THEN FALSE
    ELSE IF a = <<>> THEN TRUE
    ELSE IF Head(a) = Head(b) THEN LexLess(Tail(a), Tail(b))
    ELSE Ord(Head(a)) < Ord(Head(b))

Prop(k, v) == [key |-> k, value |-> v]

Paths == {"m1.onnx", "m2.onnx"}
Modes == {"merge", "replace"}

-----------------------------------------------------------------------------
(* ONNX graphs *)

Conv == <<"C", "o", "n", "v">>
Relu == <<"R", "e", "l", "u">>
Add  == <<"A", "d", "d">>

OpTypes == {Conv, Relu, Add}

\* an AttributeProto that holds an integer (field i) or a byte string (field
\* s); a byte string is a sequence of bytes 0..255
AttributeInt(name, i) == [name |-> name, type |-> "i", i |-> i, s |-> <<>>]
AttributeString(name, s) == [name |-> name, type |-> "s", i |-> 0, s |-> s]

\* a NodeProto without attributes
Node(name, op_type) == [name |-> name, op_type |-> op_type, attribute |-> <<>>]

\* a NodeProto with attributes
NodeWith(name, op_type, attribute) ==
    [name |-> name, op_type |-> op_type, attribute |-> attribute]

\* a TensorProto of graph.initializer: dims is a sequence of integers
Initializer(name, dims) == [name |-> name, dims |-> dims]

\* one dimension of a tensor shape; dim_value and dim_param are the two cases
\* of a oneof, so at most one of them is set (0 and "" are the unset values)
Dim(dim_value, dim_param) == [dim_value |-> dim_value, dim_param |-> dim_param]

\* a ValueInfoProto of graph.input or graph.output
ValueInfo(name, dim) == [name |-> name, dim |-> dim]

Graph(node, initializer, input, output) ==
    [node |-> node, initializer |-> initializer, input |-> input,
     output |-> output]

NoGraph == Graph(<<>>, <<>>, <<>>, <<>>)

\* the nodes n1, n2, ... with the given op_types
NodesOf(ops) ==
    [i \in DOMAIN ops |-> Node(<<"n">> \o IntToStr(i), ops[i])]

\* the graphs of the two documents the metadata tool works on
G1 == Graph(NodesOf(<<Conv>>), <<>>, <<>>, <<>>)
G2 == Graph(NodesOf(<<Relu>>), <<>>, <<>>, <<>>)

NoFile == [exists |-> FALSE, metadata_props |-> <<>>, graph |-> NoGraph]
NoText == [exists |-> FALSE, content |-> <<>>]

Model(props, g) == [exists |-> TRUE, metadata_props |-> props, graph |-> g]
Text(s) == [exists |-> TRUE, content |-> s]

\* sequences over S of length at most n
SeqUpTo(S, n) == UNION {[1..k -> S] : k \in 0..n}

\* entries an initial model file may carry (keys may repeat)
InitProps == {Prop(Str("x"), Str("0")), Prop(Str("y"), Str("1"))}

\* pieces an initial metadata text file is made of:
\*   a record line whose value holds a tab;
\*   a record line, a line without a tab, an empty line and an unterminated
\*   record (its value is whatever follows, up to the next newline or the end
\*   of the file);
\*   a line without a tab followed by an empty line
Chunks == { <<"z", TAB, "1", TAB, "2", NL>>,
            <<"x", TAB, "4", NL, "q", NL, NL, "z", TAB>>,
            <<"q", NL, NL>> }

RECURSIVE Concat(_)
Concat(ss) == IF ss = <<>> THEN <<>> ELSE Head(ss) \o Concat(Tail(ss))

InitTexts == {Text(Concat(cs)) : cs \in SeqUpTo(Chunks, MaxChunks)} \cup {NoText}

-----------------------------------------------------------------------------
(* Python string and dict operations used by import_metadata *)

\* str.find: index of the first c in s, 0 when there is none
RECURSIVE FindFrom(_, _, _)
FindFrom(s, c, i) ==
    IF i > Len(s) THEN 0
    ELSE IF s[i] = c THEN i
    ELSE FindFrom(s, c, i + 1)

Find(s, c) == FindFrom(s, c, 1)

\* open(metadata_file, 'r'): a text file is read with universal newlines, a
\* carriage return followed by a newline and a carriage return alone both
\* come out as one newline
RECURSIVE UniversalNewlines(_)
UniversalNewlines(s) ==
    IF s = <<>> THEN <<>>
    ELSE IF Head(s) = CR
         THEN <<NL>> \o UniversalNewlines(IF Len(s) >= 2 /\ s[2] = NL
                                          THEN SubSeq(s, 3, Len(s))
                                          ELSE Tail(s))
         ELSE <<Head(s)>> \o UniversalNewlines(Tail(s))

\* `for line in f`: the lines of the file, each with its terminating newline
RECURSIVE ReadLines(_)
ReadLines(s) ==
    IF s = <<>> THEN <<>>
    ELSE LET n == Find(s, NL) IN
         IF n = 0 THEN <<s>>
         ELSE <<SubSeq(s, 1, n)>> \o ReadLines(SubSeq(s, n + 1, Len(s)))

\* line.rstrip('\n')
RECURSIVE rstrip(_)
rstrip(line) ==
    IF line # <<>> /\ line[Len(line)] = NL
    THEN rstrip(SubSeq(line, 1, Len(line) - 1))
    ELSE line

\* the last index of c in s, 0 when there is none
RECURSIVE FindLastFrom(_, _, _)
FindLastFrom(s, c, i) ==
    IF i = 0 THEN 0
    ELSE IF s[i] = c THEN i
    ELSE FindLastFrom(s, c, i - 1)

\* a split at the last tab of the line
rsplit(line) ==
    LET i == FindLastFrom(line, TAB, Len(line)) IN
    IF i = 0 THEN <<line>>
    ELSE <<SubSeq(line, 1, i - 1), SubSeq(line, i + 1, Len(line))>>

\* line.split('\t', 1)
split(line) ==
    LET i == Find(line, TAB) IN
    IF i = 0 THEN <<line>>
    ELSE <<SubSeq(line, 1, i - 1), SubSeq(line, i + 1, Len(line))>>

\* key in metadata_dict
HasKey(d, k) == \E i \in DOMAIN d : d[i].key = k

\* a dict whose assignment moves an existing key to the end
DictSetMoveToEnd(d, k, v) ==
    Append(SelectSeq(d, LAMBDA e : e.key # k), Prop(k, v))

\* metadata_dict[key] = value on an insertion-ordered dict
DictSet(d, k, v) ==
    IF HasKey(d, k)
    THEN [i \in DOMAIN d |-> IF d[i].key = k THEN Prop(k, v) ELSE d[i]]
    ELSE Append(d, Prop(k, v))

\* a reading loop that takes a line without a tab as a key with an empty value
ParseLineLenient(st, raw) ==
    LET line  == rstrip(raw)
        parts == split(line)
    IN  IF line = <<>> THEN st
        ELSE [st EXCEPT !.dict = DictSet(st.dict, parts[1],
                                         IF Len(parts) = 2 THEN parts[2] ELSE <<>>)]

\* one iteration of the reading loop; st = [dict, skipped]
ParseLine(st, raw) ==
    LET line  == rstrip(raw)
        parts == split(line)
    IN  IF line = <<>> THEN st
        ELSE IF Len(parts) = 2
             THEN [st EXCEPT !.dict = DictSet(st.dict, parts[1], parts[2])]
             ELSE [st EXCEPT !.skipped = Append(st.skipped, line)]

\* a reading loop that stops at the first line it warns about
RECURSIVE ParseLoopAbort(_, _)
ParseLoopAbort(st, lines) ==
    IF lines = <<>> \/ st.skipped # <<>> THEN st
    ELSE ParseLoopAbort(ParseLine(st, Head(lines)), Tail(lines))

RECURSIVE ParseLoop(_, _)
ParseLoop(st, lines) ==
    IF lines = <<>> THEN st
    ELSE ParseLoop(ParseLine(st, Head(lines)), Tail(lines))

\* the whole reading block: the dict and the lines warned about
ReadMetadataFile(content) ==
    ParseLoop([dict |-> <<>>, skipped |-> <<>>],
              ReadLines(UniversalNewlines(content)))

-----------------------------------------------------------------------------
(* The metadata list operations of import_metadata *)

\* keys_to_remove: the indices of the entries whose key is in metadata_dict
RECURSIVE KeysToRemoveFrom(_, _, _)
KeysToRemoveFrom(props, d, i) ==
    IF i > Len(props) THEN <<>>
    ELSE IF HasKey(d, props[i].key)
         THEN <<i>> \o KeysToRemoveFrom(props, d, i + 1)
         ELSE KeysToRemoveFrom(props, d, i + 1)

\* a scan that stops at the first entry it finds
KeysToRemoveFirstOnly(props, d) ==
    LET all == KeysToRemoveFrom(props, d, 1)
    IN  IF all = <<>> THEN <<>> ELSE <<Head(all)>>

KeysToRemove(props, d) == KeysToRemoveFrom(props, d, 1)

\* del model.metadata_props[i]
DelAt(props, i) ==
    SubSeq(props, 1, i - 1) \o SubSeq(props, i + 1, Len(props))

\* deleting front to back: every deletion shifts the indices still to come,
\* and a deletion past the end finds nothing to delete
RECURSIVE DeleteForward(_, _)
DeleteForward(props, idx) ==
    IF idx = <<>> THEN props
    ELSE DeleteForward(IF Head(idx) <= Len(props) THEN DelAt(props, Head(idx))
                       ELSE props,
                       Tail(idx))

\* for i in reversed(keys_to_remove): del model.metadata_props[i]
RECURSIVE DeleteReversed(_, _)
DeleteReversed(props, idx) ==
    IF idx = <<>> THEN props
    ELSE DeleteReversed(DelAt(props, idx[Len(idx)]), SubSeq(idx, 1, Len(idx) - 1))

\* a mode branch whose replace mode forgets to clear the list
ApplyModeNoClear(props, d, mode) ==
    IF mode = "merge" THEN DeleteReversed(props, KeysToRemove(props, d))
    ELSE props

\* the mode branch
ApplyMode(props, d, mode) ==
    IF mode = "replace" THEN <<>>
    ELSE IF mode = "merge" THEN DeleteReversed(props, KeysToRemove(props, d))
    ELSE props

\* adding the incoming entries in front of the list
AddAllInFront(props, d) == d \o props

\* for key, value in metadata_dict.items(): add an entry
AddAll(props, d) == props \o d

\* onnx.checker.check_model + onnx.load succeed on a stored model file
LoadOk(files, p) == p \in DOMAIN files /\ files[p].exists

\* a save that writes the result to every model file
SaveEverywhere(files, p, model) == [q \in DOMAIN files |-> model]

\* onnx.save(model, output_path)
Save(files, p, model) == [files EXCEPT ![p] = model]

\* the lines printed on success
Report(mode, d, original_count, removed, new_count) ==
    IF mode = "replace"
    THEN [kind |-> "replace", imported |-> Len(d), original |-> original_count,
          updated |-> 0, added |-> 0, retained |-> 0]
    ELSE [kind |-> "merge", imported |-> Len(d), original |-> original_count,
          updated  |-> removed,
          added    |-> new_count - (original_count - removed),
          retained |-> new_count - Len(d)]

NoReport == [kind |-> "none", imported |-> 0, original |-> 0,
             updated |-> 0, added |-> 0, retained |-> 0]

Quiet == [skipped |-> <<>>, empty |-> FALSE, error |-> "none"]

\* a writer that writes one line per key, the first entry of each key
RECURSIVE WritePropsDedup(_)
WritePropsDedup(props) ==
    IF props = <<>> THEN <<>>
    ELSE Head(props).key \o <<TAB>> \o Head(props).value \o <<NL>>
         \o WritePropsDedup(SelectSeq(Tail(props),
                                      LAMBDA e : e.key # Head(props).key))

\* for prop in model.metadata_props: f.write(f"{prop.key}\t{prop.value}\n")
RECURSIVE WriteProps(_)
WriteProps(props) ==
    IF props = <<>> THEN <<>>
    ELSE Head(props).key \o <<TAB>> \o Head(props).value \o <<NL>>
         \o WriteProps(Tail(props))

-----------------------------------------------------------------------------
(* The shape of a tensor, as the dump tools and the explorer render it *)

\* a classification that renders every dimension without a name as its number
DimTokenNoSign(d) ==
    IF d.dim_param # <<>> THEN d.dim_param ELSE IntToStr(d.dim_value)

\* the token of one dimension in onnx_dump_simple.py and onnx_viewer_gui.py
DimToken(d) ==
    IF d.dim_value > 0 THEN IntToStr(d.dim_value)
    ELSE IF d.dim_param # <<>> THEN d.dim_param
    ELSE <<"?">>

\* the tokens of a dimension list, one per dimension, in order
ShapeTokens(dim) == [i \in DOMAIN dim |-> DimToken(dim[i])]

\* get_tensor_shape of onnx_dump_simple.py and of the explorer
get_tensor_shape(tensor) ==
    <<"[">> \o Join(<<",", " ">>, ShapeTokens(tensor.dim)) \o <<"]">>

DimOpen  == <<"[", "d", "i", "m", "]">>
DimClose == <<"[", "/", "d", "i", "m", "]">>

\* stands for the one character U+00D7, the multiplication sign
MulSign == "x"

\* get_tensor_shape of onnx_dump.py: names and "?" are wrapped in markup
RichDimToken(d) ==
    IF d.dim_value > 0 THEN IntToStr(d.dim_value)
    ELSE IF d.dim_param # <<>> THEN DimOpen \o d.dim_param \o DimClose
    ELSE DimOpen \o <<"?">> \o DimClose

rich_get_tensor_shape(tensor) ==
    <<"[">> \o Join(<<" ", MulSign, " ">>,
                   [i \in DOMAIN tensor.dim |-> RichDimToken(tensor.dim[i])])
            \o <<"]">>

-----------------------------------------------------------------------------
(* The op_type histogram *)

\* the op_types of a node list in the order of their first appearance: the
\* key order of a Counter, a defaultdict or a dict that is filled node by node
FirstSeen(node) ==
    LET types    == {node[i].op_type : i \in DOMAIN node}
        First(t) == CHOOSE i \in DOMAIN node :
                       /\ node[i].op_type = t
                       /\ \A j \in 1..(i - 1) : node[j].op_type # t
    IN  [k \in 1..Cardinality(types) |->
            CHOOSE t \in types :
                Cardinality({u \in types : First(u) <= First(t)}) = k]

\* Counter(node.op_type for node in graph.node), and the defaultdict(int) loop
\* of the explorer: each op_type with the number of its nodes
Counter(node) ==
    LET keys == FirstSeen(node)
    IN  [k \in DOMAIN keys |->
            [op_type |-> keys[k],
             count   |-> Cardinality({i \in DOMAIN node :
                                         node[i].op_type = keys[k]})]]

\* the place of e in a list sorted by descending count that keeps equal counts
\* in their order of arrival: before the first item with a smaller count
InsertByCount(sorted, e) ==
    LET smaller == {i \in DOMAIN sorted : sorted[i].count < e.count}
        at      == IF smaller = {} THEN Len(sorted) + 1
                   ELSE CHOOSE i \in smaller : \A j \in smaller : i <= j
    IN  SubSeq(sorted, 1, at - 1) \o <<e>> \o SubSeq(sorted, at, Len(sorted))

\* a listing that orders equal counts by op_type name
RECURSIVE LexicalByCount(_, _)
LexicalByCount(sorted, items) ==
    IF items = <<>> THEN sorted
    ELSE LET e      == Head(items)
             behind == {i \in DOMAIN sorted :
                           \/ sorted[i].count < e.count
                           \/ /\ sorted[i].count = e.count
                              /\ LexLess(e.op_type, sorted[i].op_type)}
             at     == IF behind = {} THEN Len(sorted) + 1
                       ELSE CHOOSE i \in behind : \A j \in behind : i <= j
         IN  LexicalByCount(SubSeq(sorted, 1, at - 1) \o <<e>>
                                \o SubSeq(sorted, at, Len(sorted)),
                            Tail(items))

\* Python's sort is stable, also with reverse=True
RECURSIVE StableByCount(_, _)
StableByCount(sorted, items) ==
    IF items = <<>> THEN sorted
    ELSE StableByCount(InsertByCount(sorted, Head(items)), Tail(items))

\* op_counter.most_common(): sorted(items, key=count, reverse=True)
MostCommon(op_counter) == StableByCount(<<>>, op_counter)

\* sorted(op_count.items(), key=lambda x: -x[1])
SortedByNegCount(items) == StableByCount(<<>>, items)

-----------------------------------------------------------------------------
(* Python floats: IEEE 754 double precision, round to nearest even.         *)
(* A positive float is [m, e]: m is its significand, Precision bits with    *)
(* the most significant first, and its value is m * 2^e.                    *)

Precision == 53

Zeros(k) == [i \in 1..k |-> 0]

\* (2^k) mod t, by repeated squaring
RECURSIVE Pow2Mod(_, _)
Pow2Mod(k, t) ==
    IF k = 0 THEN 1 % t
    ELSE LET h == Pow2Mod(k \div 2, t)
         IN  IF k % 2 = 0 THEN (h * h) % t ELSE (2 * h * h) % t

\* the value of at most ten bits
RECURSIVE BitsToInt(_)
BitsToInt(bits) ==
    IF bits = <<>> THEN 0
    ELSE 2 * BitsToInt(SubSeq(bits, 1, Len(bits) - 1)) + bits[Len(bits)]

\* the width low bits of v, the most significant first
IntToBits(v, width) == [i \in 1..width |-> (v \div 2^(width - i)) % 2]

\* bits without its leading zeros (bits holds a 1)
StripZeros(bits) ==
    LET first == CHOOSE i \in DOMAIN bits :
                    bits[i] = 1 /\ \A j \in 1..(i - 1) : bits[j] = 0
    IN  SubSeq(bits, first, Len(bits))

\* bits + 1; one bit longer when every bit is 1
Increment(bits) ==
    LET zeros == {i \in DOMAIN bits : bits[i] = 0}
    IN  IF zeros = {} THEN <<1>> \o Zeros(Len(bits))
        ELSE LET last == CHOOSE i \in zeros : \A j \in zeros : j <= i
             IN  [i \in DOMAIN bits |->
                     IF i < last THEN bits[i] ELSE IF i = last THEN 1 ELSE 0]

\* the float of significand bits and exponent e, rounded up when asked
Round(bits, e, up) ==
    IF ~up THEN [m |-> bits, e |-> e]
    ELSE LET r == Increment(bits)
         IN  IF Len(r) > Precision
             THEN [m |-> SubSeq(r, 1, Precision), e |-> e + 1]
             ELSE [m |-> r, e |-> e]

\* c / t for integers 0 < c <= t < 2^20: the quotient rounded to Precision
\* bits.  The remainder after k binary places is (c * 2^k) mod t, and place
\* k of the quotient is 1 when twice the remainder before it reaches t.
TrueDiv(c, t) ==
    IF c = t THEN [m |-> <<1>> \o Zeros(Precision - 1), e |-> -(Precision - 1)]
    ELSE LET Rem(k)   == (c * Pow2Mod(k, t)) % t
             Place(k) == IF 2 * Rem(k - 1) >= t THEN 1 ELSE 0
             first    == CHOOSE k \in 1..20 :
                            c * 2^k >= t /\ \A j \in 1..(k - 1) : c * 2^j < t
             last     == first + Precision - 1
             bits     == [i \in 1..Precision |-> Place(first + i - 1)]
             r        == Rem(last)
         IN  Round(bits, -last,
                   2 * r > t \/ (2 * r = t /\ bits[Precision] = 1))

\* the limbs of ten bits of a bit sequence of 10 * n bits, the least
\* significant limb first
Limbs(bits, n) ==
    [j \in 1..n |-> BitsToInt(SubSeq(bits, 10 * (n - j) + 1, 10 * (n - j) + 10))]

\* limbs * 100 + carry, limb by limb; the last carry is one more limb
RECURSIVE TimesLimbs(_, _)
TimesLimbs(limbs, carry) ==
    IF limbs = <<>> THEN <<carry>>
    ELSE LET t == Head(limbs) * 100 + carry
         IN  <<t % 1024>> \o TimesLimbs(Tail(limbs), t \div 1024)

\* the bits of limbs, the most significant limb (the last one) first
RECURSIVE LimbBits(_)
LimbBits(limbs) ==
    IF limbs = <<>> THEN <<>>
    ELSE LimbBits(Tail(limbs)) \o IntToBits(Head(limbs), 10)

\* x * 100: the exact product of the significand by 100, rounded to
\* Precision bits
Times100(x) ==
    LET padded == Zeros(60 - Precision) \o x.m
        bits   == StripZeros(LimbBits(TimesLimbs(Limbs(padded, 6), 0)))
        keep   == SubSeq(bits, 1, Precision)
        rest   == SubSeq(bits, Precision + 1, Len(bits))
        up     == /\ rest[1] = 1
                  /\ \/ \E i \in 2..Len(rest) : rest[i] = 1
                     \/ keep[Precision] = 1
    IN  Round(keep, x.e + (Len(bits) - Precision), up)

\* x / 2
Half(x) == [x EXCEPT !.e = @ - 1]

\* int(x) for a positive float below 1024
Trunc(x) ==
    IF Precision + x.e <= 0 THEN 0
    ELSE BitsToInt(SubSeq(x.m, 1, Precision + x.e))

-----------------------------------------------------------------------------
(* Parameter counts and their rendering *)

\* np.prod(init.dims): 1 for an empty sequence.  numpy multiplies in int64;
\* the dims of the model keep every product far below 2^31.
RECURSIVE Prod(_)
Prod(dims) == IF dims = <<>> THEN 1 ELSE Head(dims) * Prod(Tail(dims))

\* int(np.prod(init.dims)) if init.dims else 0
ElementCount(init) == IF init.dims # <<>> THEN Prod(init.dims) ELSE 0

\* a total that counts an initializer without dims as one element
RECURSIVE TotalParamsCountingScalars(_)
TotalParamsCountingScalars(initializer) ==
    IF initializer = <<>> THEN 0
    ELSE Prod(Head(initializer).dims)
         + TotalParamsCountingScalars(Tail(initializer))

\* sum(int(np.prod(init.dims)) for init in graph.initializer if init.dims)
RECURSIVE TotalParams(_)
TotalParams(initializer) ==
    IF initializer = <<>> THEN 0
    ELSE (IF Head(initializer).dims # <<>> THEN Prod(Head(initializer).dims)
          ELSE 0)
         + TotalParams(Tail(initializer))

\* the decimal digits of v, padded with zeros on the left to width digits
ZeroPadded(v, width) ==
    LET d == NatToStr(v)
    IN  IF Len(d) >= width THEN d
        ELSE [i \in 1..(width - Len(d)) |-> "0"] \o d

\* f"{n / unit:.{digits}f}" for unit 1000 or 1000000 and one or two digits:
\* the quotient rounded to the nearest value with that many decimals.  When
\* n / unit lies exactly half way between two such values the digit Python
\* prints depends on the binary value of the quotient; no count of the
\* model is such a case (there this definition rounds down).
Fixed(n, unit, digits) ==
    LET whole  == n \div unit
        scaled == (n % unit) * 10^digits
        frac   == scaled \div unit
        up     == 2 * (scaled % unit) > unit
        carry  == up /\ frac + 1 = 10^digits
    IN  IntToStr(IF carry THEN whole + 1 ELSE whole) \o <<".">>
            \o ZeroPadded(IF carry THEN 0 ELSE IF up THEN frac + 1 ELSE frac,
                          digits)

\* params_str of show_metadata (onnx_dump.py) and of onnx_dump_simple.py
FormatParams(total_params) ==
    IF total_params >= 1000000
    THEN Fixed(total_params, 1000000, 2) \o <<"M">>
    ELSE IF total_params >= 1000
    THEN Fixed(total_params, 1000, 2) \o <<"K">>
    ELSE IntToStr(total_params)

\* elements_str of show_initializers (onnx_dump.py)
FormatElements(total_elements) ==
    IF total_elements >= 1000000
    THEN Fixed(total_elements, 1000000, 1) \o <<"M">>
    ELSE IF total_elements >= 1000
    THEN Fixed(total_elements, 1000, 1) \o <<"K">>
    ELSE IntToStr(total_elements)

-----------------------------------------------------------------------------
(* onnx_dump.py: what each show function renders *)

\* a metadata value longer than 50 characters is cut to 47 and "..."
Truncated(value) ==
    IF Len(value) > 50 THEN SubSeq(value, 1, 47) \o <<".", ".", ".">>
    ELSE value

ShowMetadata(model) ==
    LET graph == model.graph IN
    [ metadata     |-> [i \in DOMAIN model.metadata_props |->
                           Prop(model.metadata_props[i].key,
                                Truncated(model.metadata_props[i].value))],
      inputs       |-> Len(graph.input),
      outputs      |-> Len(graph.output),
      nodes        |-> Len(graph.node),
      op_types     |-> Cardinality({graph.node[i].op_type : i \in DOMAIN graph.node}),
      initializers |-> Len(graph.initializer),
      total_params |-> TotalParams(graph.initializer),
      params_str   |-> FormatParams(TotalParams(graph.initializer)) ]

ShowInputsOutputs(graph) ==
    [i \in DOMAIN graph.input |->
        [kind |-> "IN", name |-> graph.input[i].name,
         shape |-> rich_get_tensor_shape(graph.input[i])]]
    \o
    [i \in DOMAIN graph.output |->
        [kind |-> "OUT", name |-> graph.output[i].name,
         shape |-> rich_get_tensor_shape(graph.output[i])]]

NoFloat == [m |-> <<>>, e |-> 0]

\* bar_length = int(percentage / 2)
BarLength(percentage) == Trunc(Half(percentage))

\* one iteration of the loop of show_operators_table:
\* percentage = (count / total_nodes) * 100 raises when total_nodes is 0
OperatorRow(item, total_nodes) ==
    IF total_nodes = 0
    THEN [op_type |-> item.op_type, count |-> item.count,
          percentage |-> NoFloat, bar_length |-> 0,
          error |-> "ZeroDivisionError"]
    ELSE LET percentage == Times100(TrueDiv(item.count, total_nodes))
         IN  [op_type |-> item.op_type, count |-> item.count,
              percentage |-> percentage, bar_length |-> BarLength(percentage),
              error |-> "none"]

ShowOperatorsTable(graph) ==
    LET op_counter  == Counter(graph.node)
        total_nodes == Len(graph.node)
        items       == MostCommon(op_counter)
    IN  [i \in DOMAIN items |-> OperatorRow(items[i], total_nodes)]

\* nothing is rendered without initializers; at most 20 rows, then one row
\* that tells how many more there are
ShowInitializers(graph) ==
    LET initializer == graph.initializer
        shown       == SubSeq(initializer, 1,
                              IF Len(initializer) > 20 THEN 20
                              ELSE Len(initializer))
    IN  [ shown |-> initializer # <<>>,
          rows  |-> [i \in DOMAIN shown |->
                        [name |-> shown[i].name, dims |-> shown[i].dims,
                         total_elements |-> ElementCount(shown[i]),
                         elements_str |-> FormatElements(ElementCount(shown[i]))]],
          more  |-> IF Len(initializer) > 20 THEN Len(initializer) - 20 ELSE 0 ]

NotShown == [shown |-> FALSE, rows |-> <<>>, more |-> 0]

-----------------------------------------------------------------------------
(* onnx_dump_simple.py: the sections of show_model_info *)

SimpleTensors(tensors) ==
    [i \in DOMAIN tensors |->
        [name |-> tensors[i].name, shape |-> get_tensor_shape(tensors[i])]]

SimpleOperators(graph) ==
    LET op_counter == Counter(graph.node)
        items      == MostCommon(op_counter)
    IN  [ shown |-> TRUE, total_nodes |-> Len(graph.node),
          op_types |-> Len(op_counter),
          rows |-> [i \in DOMAIN items |->
                       [op_type |-> items[i].op_type, count |-> items[i].count]] ]

NoOperators == [shown |-> FALSE, total_nodes |-> 0, op_types |-> 0, rows |-> <<>>]

\* the last line: printed only when the graph has initializers
SimpleExtra(graph) ==
    IF Len(graph.initializer) > 0
    THEN [ shown |-> TRUE, initializer_count |-> Len(graph.initializer),
           total_params |-> TotalParams(graph.initializer),
           params_str |-> FormatParams(TotalParams(graph.initializer)) ]
    ELSE [ shown |-> FALSE, initializer_count |-> 0, total_params |-> 0,
           params_str |-> <<>> ]

-----------------------------------------------------------------------------
(* onnx_viewer_gui.py: what each update method puts in its pane *)

EmptyText ==
    [ shown |-> "empty", path |-> "None", metadata |-> <<>>, inputs |-> 0,
      outputs |-> 0, nodes |-> 0, initializers |-> 0, op_stats |-> <<>> ]

\* the overview after a failed load: cleared, then the error message
ErrorText == [EmptyText EXCEPT !.shown = "error"]

EmptyGraphText == [shown |-> "empty", nodes |-> <<>>]

UpdateOverview(model, path) ==
    LET graph == model.graph IN
    [ shown        |-> "overview",
      path         |-> path,
      metadata     |-> model.metadata_props,
      inputs       |-> Len(graph.input),
      outputs      |-> Len(graph.output),
      nodes        |-> Len(graph.node),
      initializers |-> Len(graph.initializer),
      op_stats     |-> SortedByNegCount(Counter(graph.node)) ]

UpdateIoTable(graph) ==
    [i \in DOMAIN graph.input |->
        [name |-> graph.input[i].name, kind |-> "in",
         shape |-> get_tensor_shape(graph.input[i])]]
    \o
    [i \in DOMAIN graph.output |->
        [name |-> graph.output[i].name, kind |-> "out",
         shape |-> get_tensor_shape(graph.output[i])]]

\* op_groups[node.op_type].append(node) for every node: each op_type with its
\* nodes in graph order
OpGroups(node) ==
    LET keys == FirstSeen(node)
    IN  [k \in DOMAIN keys |->
            [op_type |-> keys[k],
             nodes   |-> SelectSeq(node, LAMBDA n : n.op_type = keys[k])]]

\* a tree that leaves the groups in the order in which their op_type first
\* appears
SortedByFirstSeen(op_groups) == op_groups

\* sorted(op_groups.keys()): the groups in ascending order of op_type
RECURSIVE SortedByOpType(_)
SortedByOpType(op_groups) ==
    IF op_groups = <<>> THEN <<>>
    ELSE LET least == CHOOSE i \in DOMAIN op_groups :
                         \A j \in DOMAIN op_groups :
                             j # i => LexLess(op_groups[i].op_type,
                                              op_groups[j].op_type)
         IN  <<op_groups[least]>>
                 \o SortedByOpType(SubSeq(op_groups, 1, least - 1)
                                   \o SubSeq(op_groups, least + 1, Len(op_groups)))

TreeTensors(tensors) ==
    [i \in DOMAIN tensors |->
        [name |-> tensors[i].name, shape |-> get_tensor_shape(tensors[i])]]

\* a tree that always adds the initializers branch
StructureTreeFourBranches(graph) ==
    LET groups == SortedByOpType(OpGroups(graph.node))
    IN  << [label |-> "[IN]", children |-> TreeTensors(graph.input)],
           [label |-> "[OP]",
            children |-> [i \in DOMAIN groups |->
                             [label |-> groups[i].op_type,
                              size |-> Len(groups[i].nodes),
                              children |-> groups[i].nodes]]],
           [label |-> "[W]", children |-> graph.initializer],
           [label |-> "[OUT]", children |-> TreeTensors(graph.output)] >>

\* the top-level items update_structure_tree adds, in order: inputs, nodes by
\* op_type, initializers (only when there are some), outputs
UpdateStructureTree(graph) ==
    LET groups == SortedByOpType(OpGroups(graph.node))
    IN  << [label |-> "[IN]", children |-> TreeTensors(graph.input)],
           [label |-> "[OP]",
            children |-> [i \in DOMAIN groups |->
                             [label |-> groups[i].op_type,
                              size |-> Len(groups[i].nodes),
                              children |-> groups[i].nodes]]] >>
        \o (IF graph.initializer # <<>>
            THEN << [label |-> "[W]", children |-> graph.initializer] >>
            ELSE <<>>)
        \o << [label |-> "[OUT]", children |-> TreeTensors(graph.output)] >>

\* bytes.decode('utf-8') accepts every byte below 0x80 as one character; the
\* byte strings of the model hold such bytes and 0xFF, which no UTF-8 text has
Utf8Valid(s) == \A i \in DOMAIN s : s[i] < 128

\* the byte of the letter A, and a byte that no UTF-8 text has
ByteA  == 65
ByteFF == 255

Chr(byte) == IF byte = ByteA THEN "A" ELSE "?"
Decode(s) == [i \in DOMAIN s |-> Chr(s[i])]

\* get_attr_value for an attribute with field i or field s, as the f-string
\* of update_graph_info renders it; attr.s.decode raises on invalid UTF-8
get_attr_value(attr) ==
    IF attr.type = "i" THEN [error |-> "none", text |-> IntToStr(attr.i)]
    ELSE IF Utf8Valid(attr.s) THEN [error |-> "none", text |-> Decode(attr.s)]
    ELSE [error |-> "UnicodeDecodeError", text |-> <<>>]

\* update_graph_info raises, before it touches the pane, when the value of
\* some attribute of some node cannot be decoded
GraphInfoRaises(graph) ==
    \E i \in DOMAIN graph.node : \E a \in DOMAIN graph.node[i].attribute :
        get_attr_value(graph.node[i].attribute[a]).error # "none"

UpdateGraphInfo(graph) ==
    [ shown |-> "graph",
      nodes |-> [i \in DOMAIN graph.node |->
                    [index |-> i - 1, op_type |-> graph.node[i].op_type,
                     name |-> graph.node[i].name,
                     attributes |->
                        [a \in DOMAIN graph.node[i].attribute |->
                            [name |-> graph.node[i].attribute[a].name,
                             text |-> get_attr_value(
                                         graph.node[i].attribute[a]).text]]]] ]

-----------------------------------------------------------------------------
(* The state machine *)

NoCall == [op |-> "none", model_path |-> "none", output_path |-> "none",
           mode |-> "none", fs0 |-> [p \in Paths |-> NoFile], txt0 |-> NoText]

NoPrev == [op |-> "none", model_path |-> "none", output_path |-> "none",
           mode |-> "none", ret |-> 0, metadata_dict |-> <<>>]

\* what is remembered of a command once the next one runs
Summary(c, r, d) == [op |-> c.op, model_path |-> c.model_path,
                     output_path |-> c.output_path, mode |-> c.mode, ret |-> r,
                     metadata_dict |-> d]

\* no dump tool has run
NoConsole == [tool |-> "none", error |-> "none"]

\* the explorer's load attempt before any was made
NoAttempt == [op |-> "none", path |-> "", outcome |-> "none",
              self_model |-> NoFile, self_model_path |-> "None",
              structure_tree |-> <<>>, io_table |-> <<>>,
              graph_text |-> EmptyGraphText, node_detail_text |-> "empty"]

\* the explorer after __init__ and init_ui: no model, empty panes
Constructed ==
    /\ file_path_edit = ""
    /\ self_model = NoFile
    /\ self_model_path = "None"
    /\ overview_text = EmptyText
    /\ io_table = <<>>
    /\ structure_tree = <<>>
    /\ graph_text = EmptyGraphText
    /\ node_detail_text = "empty"
    /\ status = [kind |-> "ready", path |-> ""]
    /\ before = NoAttempt

Init ==
    /\ \E props \in SeqUpTo(InitProps, MaxProps) :
          fs = [p \in Paths |-> IF p = "m1.onnx" THEN Model(props, G1) ELSE NoFile]
    /\ txt \in InitTexts
    /\ nops = 0
    /\ call = NoCall
    /\ prev = NoPrev
    /\ ret = 0
    /\ metadata_dict = <<>>
    /\ stdout = NoReport
    /\ stderr = Quiet
    /\ tool = "metadata"
    /\ console = NoConsole
    /\ Constructed

\* import_metadata(model_path, <the metadata file>, output_path, mode)
ImportMetadata(model_path, output_path, mode) ==
    /\ nops < MaxOps
    /\ nops' = nops + 1
    /\ prev' = Summary(call, ret, metadata_dict)
    /\ call' = [op |-> "import", model_path |-> model_path,
                output_path |-> output_path, mode |-> mode,
                fs0 |-> fs, txt0 |-> txt]
    /\ UNCHANGED <<txt, viewVars>>
    /\ IF ~txt.exists
       THEN \* FileNotFoundError on the metadata file
            /\ ret' = 1
            /\ metadata_dict' = <<>>
            /\ stdout' = NoReport
            /\ stderr' = [Quiet EXCEPT !.error = "no metadata file"]
            /\ UNCHANGED fs
       ELSE \E parsed \in {ReadMetadataFile(txt.content)} :
            LET d      == parsed.dict
                warn   == [skipped |-> parsed.skipped, empty |-> (d = <<>>),
                           error |-> "none"]
            IN  /\ metadata_dict' = d
                /\ IF ~LoadOk(fs, model_path)
                   THEN \* check_model / load raised
                        /\ ret' = 1
                        /\ stdout' = NoReport
                        /\ stderr' = [warn EXCEPT !.error = "exception"]
                        /\ UNCHANGED fs
                   ELSE LET model          == fs[model_path]
                            original_count == Len(model.metadata_props)
                            removed        == IF mode = "merge"
                                              THEN Len(KeysToRemove(model.metadata_props, d))
                                              ELSE 0
                            props          == AddAll(ApplyMode(model.metadata_props, d, mode), d)
                        IN  /\ fs' = Save(fs, output_path,
                                          [model EXCEPT !.metadata_props = props])
                            /\ ret' = 0
                            /\ stdout' = Report(mode, d, original_count, removed, Len(props))
                            /\ stderr' = warn

\* export_metadata(model_path, <the metadata file>)
ExportMetadata(model_path) ==
    /\ nops < MaxOps
    /\ nops' = nops + 1
    /\ prev' = Summary(call, ret, metadata_dict)
    /\ call' = [op |-> "export", model_path |-> model_path,
                output_path |-> "none", mode |-> "none",
                fs0 |-> fs, txt0 |-> txt]
    /\ UNCHANGED <<fs, metadata_dict, viewVars>>
    /\ IF ~LoadOk(fs, model_path)
       THEN /\ ret' = 1
            /\ stdout' = NoReport
            /\ stderr' = [Quiet EXCEPT !.error = "exception"]
            /\ UNCHANGED txt
       ELSE LET props == fs[model_path].metadata_props IN
            /\ ret' = 0
            /\ IF props = <<>>
               THEN \* no custom metadata: warn and write an empty file
                    /\ txt' = Text(<<>>)
                    /\ stdout' = NoReport
                    /\ stderr' = [Quiet EXCEPT !.empty = TRUE]
               ELSE /\ txt' = Text(WriteProps(props))
                    /\ stdout' = [NoReport EXCEPT !.kind = "export",
                                                  !.imported = Len(props)]
                    /\ stderr' = Quiet

\* Initial states for the export-then-import round trip: m1.onnx holds a list
\* whose keys and values may be empty, repeat, or hold a tab, a newline or a
\* carriage return; m2.onnx is another document; no metadata file yet.
RoundTripProps ==
    { Prop(Str("a"), Str("1")),
      Prop(Str("a"), <<"1", TAB, "2">>),
      Prop(<<>>, <<>>),
      Prop(<<"c", TAB>>, Str("3")),
      Prop(Str("d"), <<"4", NL, "5">>),
      Prop(Str("e"), <<"6", CR, "7">>),
      Prop(<<"f", CR>>, Str("8")) }

InitRoundTrip ==
    /\ \E props \in SeqUpTo(RoundTripProps, MaxRoundTrip) :
          fs = [p \in Paths |->
                   IF p = "m1.onnx" THEN Model(props, G1)
                   ELSE Model(<<Prop(Str("y"), Str("1"))>>, G2)]
    /\ txt = NoText
    /\ nops = 0
    /\ call = NoCall
    /\ prev = NoPrev
    /\ ret = 0
    /\ metadata_dict = <<>>
    /\ stdout = NoReport
    /\ stderr = Quiet
    /\ tool = "metadata"
    /\ console = NoConsole
    /\ Constructed

Next ==
    \/ \E model_path \in Paths, output_path \in Paths, mode \in Modes :
          ImportMetadata(model_path, output_path, mode)
    \/ \E model_path \in Paths : ExportMetadata(model_path)

Spec == Init /\ [][Next]_vars

SpecRoundTrip == InitRoundTrip /\ [][Next]_vars

-----------------------------------------------------------------------------
(* The dump tools and the explorer *)

Tools == {"dump", "simple", "gui"}

\* what the path field may hold: a model path, nothing, or a path without file
GuiPaths == Paths \cup {"", "missing.onnx"}

\* onnx_dump.py: show_model_info(model_path, show_operators, show_weights)
DumpShowModelInfo(model_path, show_operators, show_weights) ==
    /\ tool = "dump"
    /\ UNCHANGED <<fs, metaVars, tool, guiVars>>
    /\ IF ~LoadOk(fs, model_path)
       THEN /\ ret' = 1
            /\ console' = [tool |-> "dump", error |-> "exception",
                           model_path |-> model_path]
       ELSE \E operators \in {IF show_operators
                              THEN ShowOperatorsTable(fs[model_path].graph)
                              ELSE <<>>} :
            IF \E i \in DOMAIN operators : operators[i].error # "none"
            THEN \* the exception leaves show_operators_table and the try block
                 /\ ret' = 1
                 /\ console' = [tool |-> "dump", error |-> "ZeroDivisionError",
                                model_path |-> model_path]
            ELSE /\ ret' = 0
                 /\ console' =
                       [ tool           |-> "dump",
                         error          |-> "none",
                         model_path     |-> model_path,
                         show_operators |-> show_operators,
                         show_weights   |-> show_weights,
                         metadata       |-> ShowMetadata(fs[model_path]),
                         io             |-> ShowInputsOutputs(fs[model_path].graph),
                         operators      |-> operators,
                         initializers   |-> IF show_weights
                                            THEN ShowInitializers(fs[model_path].graph)
                                            ELSE NotShown ]

\* onnx_dump_simple.py: show_model_info(model_path, show_operators)
SimpleShowModelInfo(model_path, show_operators) ==
    /\ tool = "simple"
    /\ UNCHANGED <<fs, metaVars, tool, guiVars>>
    /\ IF ~LoadOk(fs, model_path)
       THEN /\ ret' = 1
            /\ console' = [tool |-> "simple", error |-> "exception",
                           model_path |-> model_path]
       ELSE LET graph == fs[model_path].graph IN
            /\ ret' = 0
            /\ console' =
                  [ tool           |-> "simple",
                    error          |-> "none",
                    model_path     |-> model_path,
                    show_operators |-> show_operators,
                    metadata       |-> fs[model_path].metadata_props,
                    inputs         |-> SimpleTensors(graph.input),
                    outputs        |-> SimpleTensors(graph.output),
                    operators      |-> IF show_operators
                                       THEN SimpleOperators(graph)
                                       ELSE NoOperators,
                    extra          |-> SimpleExtra(graph) ]

\* the explorer: the user picks a file in the dialog or types in the path field
EditPath(file_path) ==
    /\ tool = "gui"
    /\ file_path_edit' = file_path
    /\ UNCHANGED <<fs, ret, metaVars, tool, console, self_model,
                   self_model_path, overview_text, io_table, structure_tree,
                   graph_text, node_detail_text, status, before>>

\* the explorer: load_model, the handler of the load button
LoadModel ==
    /\ tool = "gui"
    /\ UNCHANGED <<fs, ret, metaVars, tool, console, file_path_edit>>
    /\ LET file_path == file_path_edit
           Attempt(outcome) ==
               [ op |-> "load", path |-> file_path, outcome |-> outcome,
                 self_model |-> self_model,
                 self_model_path |-> self_model_path,
                 structure_tree |-> structure_tree,
                 io_table |-> io_table,
                 graph_text |-> graph_text,
                 node_detail_text |-> node_detail_text ]
       IN  IF file_path = ""
           THEN \* nothing chosen: a message and return
                /\ status' = [kind |-> "no file", path |-> ""]
                /\ before' = Attempt("empty")
                /\ UNCHANGED <<self_model, self_model_path, overview_text,
                               io_table, structure_tree, graph_text,
                               node_detail_text>>
           ELSE IF ~LoadOk(fs, file_path)
           THEN \* check_model or load raised: the except branch
                /\ status' = [kind |-> "failed", path |-> file_path]
                /\ overview_text' = ErrorText
                /\ before' = Attempt("failed")
                /\ UNCHANGED <<self_model, self_model_path, io_table,
                               structure_tree, graph_text, node_detail_text>>
           ELSE IF GraphInfoRaises(fs[file_path].graph)
           THEN \* model, path, overview, table and tree are replaced, then
                \* update_graph_info raises: the except branch
                /\ self_model' = fs[file_path]
                /\ self_model_path' = file_path
                /\ io_table' = UpdateIoTable(fs[file_path].graph)
                /\ structure_tree' = UpdateStructureTree(fs[file_path].graph)
                /\ status' = [kind |-> "failed", path |-> file_path]
                /\ overview_text' = ErrorText
                /\ before' = Attempt("update failed")
                /\ UNCHANGED <<graph_text, node_detail_text>>
           ELSE /\ self_model' = fs[file_path]
                /\ self_model_path' = file_path
                /\ overview_text' = UpdateOverview(fs[file_path], file_path)
                /\ io_table' = UpdateIoTable(fs[file_path].graph)
                /\ structure_tree' = UpdateStructureTree(fs[file_path].graph)
                /\ graph_text' = UpdateGraphInfo(fs[file_path].graph)
                /\ node_detail_text' = "prompt"
                /\ status' = [kind |-> "ok", path |-> file_path]
                /\ before' = Attempt("ok")

NextView ==
    \/ \E model_path \in Paths, show_operators \in BOOLEAN, show_weights \in BOOLEAN :
          DumpShowModelInfo(model_path, show_operators, show_weights)
    \/ \E model_path \in Paths, show_operators \in BOOLEAN :
          SimpleShowModelInfo(model_path, show_operators)
    \/ \E file_path \in GuiPaths : EditPath(file_path)
    \/ LoadModel

\* before any of the three programs has done anything
Started ==
    /\ txt = NoText
    /\ nops = 0
    /\ call = NoCall
    /\ prev = NoPrev
    /\ ret = 0
    /\ metadata_dict = <<>>
    /\ stdout = NoReport
    /\ stderr = Quiet
    /\ tool \in Tools
    /\ console = NoConsole
    /\ Constructed

\* the tensors every graph of the node and initializer families has
TensorX == ValueInfo(Str("x"), <<Dim(0, Str("N")), Dim(3, <<>>)>>)
TensorY == ValueInfo(Str("y"), <<Dim(0, <<>>)>>)

\* a graph of six nodes in which every op_type has another count
SixNodes == <<Conv, Relu, Conv, Add, Relu, Conv>>

\* 29 Conv nodes followed by 21 Relu nodes
FiftyNodes == [i \in 1..50 |-> IF i <= 29 THEN Conv ELSE Relu]

\* Graphs that differ in their nodes: every op_type sequence up to MaxNodes,
\* the graph of six nodes and the graph of fifty.  m2.onnx is not there.
InitOps ==
    /\ Started
    /\ \E ops \in SeqUpTo(OpTypes, MaxNodes) \cup {SixNodes, FiftyNodes} :
          fs = [p \in Paths |->
                   IF p = "m1.onnx"
                   THEN Model(<<>>, Graph(NodesOf(ops), <<>>, <<TensorX>>, <<TensorY>>))
                   ELSE NoFile]

\* the dims an initializer of the model may have
DimsLists == { <<>>, <<999>>, <<1000>>, <<1234>>, <<0, 1000>>, <<999, 1001>>,
               <<1000, 1000>> }

InitializersOf(dimss) ==
    [i \in DOMAIN dimss |-> Initializer(<<"w">> \o IntToStr(i), dimss[i])]

\* Graphs that differ in their initializers (none up to MaxInits), with no
\* node or with two
InitParams ==
    /\ Started
    /\ \E dimss \in SeqUpTo(DimsLists, MaxInits), ops \in {<<>>, <<Relu, Conv>>} :
          fs = [p \in Paths |->
                   IF p = "m1.onnx"
                   THEN Model(<<>>, Graph(NodesOf(ops), InitializersOf(dimss),
                                          <<TensorX>>, <<TensorY>>))
                   ELSE NoFile]

\* the dimensions of the model: a size, 1, an unset dimension, a negative
\* value, and a named dimension
Dims == { Dim(12, <<>>), Dim(1, <<>>), Dim(0, <<>>), Dim(-1, <<>>),
          Dim(0, Str("N")) }

\* Graphs that differ in the shape of their input (no dimension up to MaxRank)
InitShapes ==
    /\ Started
    /\ \E dim \in SeqUpTo(Dims, MaxRank) :
          fs = [p \in Paths |->
                   IF p = "m1.onnx"
                   THEN Model(<<>>, Graph(NodesOf(<<Conv>>), <<>>,
                                          <<ValueInfo(Str("x"), dim)>>, <<TensorY>>))
                   ELSE NoFile]

\* the name of a string attribute of Conv
AutoPad == <<"a", "u", "t", "o", "_", "p", "a", "d">>

\* the graphs of the explorer sessions: no node at all, two small graphs, a
\* node with attributes that decode and a node with a string attribute whose
\* bytes are not UTF-8
GuiGraphs ==
    { NoGraph,
      Graph(NodesOf(<<Relu, Conv, Relu>>), InitializersOf(<<<<3, 3>>>>),
            <<TensorX>>, <<TensorY>>),
      Graph(NodesOf(<<Add>>), <<>>, <<TensorY>>, <<TensorX>>),
      Graph(<<NodeWith(<<"n", "1">>, Conv,
                       <<AttributeInt(<<"g", "r", "o", "u", "p">>, 1),
                         AttributeString(AutoPad, <<ByteA, ByteA>>)>>)>>,
            <<>>, <<TensorX>>, <<TensorY>>),
      Graph(<<NodeWith(<<"n", "1">>, Conv,
                       <<AttributeString(AutoPad, <<ByteA, ByteFF>>)>>)>>,
            <<>>, <<TensorX>>, <<TensorY>>) }

\* Two model files, each holding one of the graphs or not there
InitGui ==
    /\ Started
    /\ \E g1 \in GuiGraphs, g2 \in GuiGraphs, there \in BOOLEAN :
          fs = [p \in Paths |->
                   IF p = "m1.onnx" THEN Model(<<>>, g1)
                   ELSE IF there THEN Model(<<Prop(Str("y"), Str("1"))>>, g2)
                   ELSE NoFile]

SpecOps == InitOps /\ [][NextView]_vars

SpecParams == InitParams /\ [][NextView]_vars

SpecShapes == InitShapes /\ [][NextView]_vars

SpecGui == InitGui /\ [][NextView]_vars

-----------------------------------------------------------------------------
(* Vocabulary of the properties *)

\* the last command was an import that returned 0
ImportDone == call.op = "import" /\ ret = 0

\* the metadata list of the model the last import loaded, as it was loaded
Orig == call.fs0[call.model_path].metadata_props

\* the metadata list of the model the last import saved
Result == fs[call.output_path].metadata_props

KeySet(props) == {props[i].key : i \in DOMAIN props}

NoRepeatedKey(props) ==
    \A i, j \in DOMAIN props : i # j => props[i].key # props[j].key

\* the entries of props whose key is outside ks, in order
Without(props, ks) == SelectSeq(props, LAMBDA e : e.key \notin ks)

\* The text of a metadata file read directly, position by position:
\* where its lines start, and the record each line with a tab carries.
LineStarts(s) == {p \in 1..Len(s) : p = 1 \/ s[p - 1] = NL}

Min(S) == CHOOSE m \in S : \A n \in S : m <= n
Max(S) == CHOOSE m \in S : \A n \in S : m >= n

\* the line that starts at p runs up to the next newline or the end of the text
LineEnd(s, p) == Min({e \in p..Len(s) : s[e] = NL} \cup {Len(s) + 1}) - 1

LineAt(s, p) == SubSeq(s, p, LineEnd(s, p))

IsRecord(l) == \E i \in DOMAIN l : l[i] = TAB

FirstTab(l) == Min({t \in DOMAIN l : l[t] = TAB})

KeyOf(l)   == SubSeq(l, 1, FirstTab(l) - 1)
ValueOf(l) == SubSeq(l, FirstTab(l) + 1, Len(l))

RecordStarts(s) == {p \in LineStarts(s) : IsRecord(LineAt(s, p))}

\* the records of the text: where each starts, its key and its value
Records(s) ==
    {[start |-> p, key |-> KeyOf(LineAt(s, p)), value |-> ValueOf(LineAt(s, p))] :
        p \in RecordStarts(s)}

\* the non-empty lines of the text that have no tab
BadLines(s) ==
    {[start |-> p, line |-> LineAt(s, p)] :
        p \in {q \in LineStarts(s) : LineAt(s, q) # <<>> /\ ~IsRecord(LineAt(s, q))}}

-----------------------------------------------------------------------------
(* Properties of import_metadata *)

C2_MergeResult ==
    (ImportDone /\ call.mode = "merge") =>
        Result = Without(Orig, KeySet(metadata_dict)) \o metadata_dict

\* a merge that removed two entries with the same key and kept a survivor
C2_Witness ==
    /\ ImportDone /\ call.mode = "merge"
    /\ \E i, j \in DOMAIN Orig :
          i < j /\ Orig[i].key = Orig[j].key /\ Orig[i].key \in KeySet(metadata_dict)
    /\ \E i \in DOMAIN Orig : Orig[i].key \notin KeySet(metadata_dict)

\* C3: in replace mode the result is exactly the incoming mapping's entries in
\* the mapping's order, whatever the original list; so the key sets agree.
C3_ReplaceResult ==
    (ImportDone /\ call.mode = "replace") =>
        /\ Result = metadata_dict
        /\ KeySet(Result) = KeySet(metadata_dict)

\* a replace of a list holding a key the non-empty mapping does not have
C3_Witness ==
    /\ ImportDone /\ call.mode = "replace"
    /\ metadata_dict # <<>>
    /\ \E i \in DOMAIN Orig : Orig[i].key \notin KeySet(metadata_dict)

\* C4: the parsed mapping has each key of a record line once, at the position
\* of the key's first record and with the value of the key's last record.
C4_FirstPositionLastValue ==
    (call.op = "import" /\ call.txt0.exists) =>
        \A R \in {Records(call.txt0.content)} :
            LET d        == metadata_dict
                First(k) == Min({r.start : r \in {q \in R : q.key = k}})
                Last(k)  == CHOOSE r \in R :
                               r.key = k /\ \A q \in R : q.key = k => q.start <= r.start
            IN  /\ NoRepeatedKey(d)
                /\ KeySet(d) = {r.key : r \in R}
                /\ \A i \in DOMAIN d : d[i].value = Last(d[i].key).value
                /\ \A i, j \in DOMAIN d :
                      i < j => First(d[i].key) < First(d[j].key)

\* the lines  z<TAB>1<TAB>2, x<TAB>4, q, (empty), z<TAB>  parsed to
\* [(z, ""), (x, "4")]
C4_Witness ==
    /\ call.op = "import" /\ call.txt0.exists
    /\ call.txt0.content =
          <<"z", TAB, "1", TAB, "2", NL, "x", TAB, "4", NL, "q", NL, NL, "z", TAB>>
    /\ metadata_dict = <<Prop(Str("z"), <<>>), Prop(Str("x"), Str("4"))>>

\* C5: a merge import reports updated = number of keys of the original list
\* that occur in the incoming mapping, added = |mapping| - updated and
\* retained = |result| - |mapping|.
C5_ReportedCounts ==
    (ImportDone /\ call.mode = "merge") =>
        /\ stdout.updated  = Cardinality(KeySet(Orig) \cap KeySet(metadata_dict))
        /\ stdout.added    = Len(metadata_dict) - stdout.updated
        /\ stdout.retained = Len(Result) - Len(metadata_dict)

\* C6: in merge mode every original entry whose key is not in the incoming
\* mapping is in the result with its value, these entries keep their relative
\* order, and all of them come before the incoming entries.
C6_UntouchedEntriesKept ==
    (ImportDone /\ call.mode = "merge") =>
        LET ks        == KeySet(metadata_dict)
            Untouched == {i \in DOMAIN Orig : Orig[i].key \notin ks}
            Rank(i)   == Cardinality({j \in Untouched : j <= i})
            n         == Cardinality(Untouched)
        IN  /\ \A i \in Untouched :
                  Rank(i) \in DOMAIN Result /\ Result[Rank(i)] = Orig[i]
            /\ n + Len(metadata_dict) = Len(Result)
            /\ \A p \in DOMAIN Result : p > n => Result[p].key \in ks

\* a merge that kept two different entries and removed one between or around them
C6_Witness ==
    /\ ImportDone /\ call.mode = "merge"
    /\ metadata_dict # <<>>
    /\ \E i, j \in DOMAIN Orig :
          /\ i < j /\ Orig[i] # Orig[j]
          /\ Orig[i].key \notin KeySet(metadata_dict)
          /\ Orig[j].key \notin KeySet(metadata_dict)
    /\ \E i \in DOMAIN Orig : Orig[i].key \in KeySet(metadata_dict)

\* C7 as stated: after an import the input document has the metadata_props and
\* graph it had before, for every output target, and the output document has
\* the input's graph.
C7_InputNeverMutated ==
    ImportDone =>
        /\ fs[call.model_path] = call.fs0[call.model_path]
        /\ fs[call.output_path].graph = call.fs0[call.model_path].graph

\* C7 amended: an import writes the output target and nothing else: every other
\* model file, the input document included when it is another path, and the
\* metadata file are as before; the output document has the input's graph.
C7_OnlyOutputWritten ==
    ImportDone =>
        /\ \A p \in Paths : p # call.output_path => fs[p] = call.fs0[p]
        /\ call.output_path # call.model_path =>
              fs[call.model_path] = call.fs0[call.model_path]
        /\ fs[call.output_path].exists
        /\ fs[call.output_path].graph = call.fs0[call.model_path].graph
        /\ txt = call.txt0

\* an import into another path whose result differs from the original list
C7_Witness ==
    /\ ImportDone
    /\ call.output_path # call.model_path
    /\ Result # Orig
    /\ fs[call.model_path].metadata_props = Orig

\* C8: an import applied to the result of a previous import with the same
\* mapping and the same mode yields the list the first one produced.
C8_Idempotent ==
    ( /\ prev.op = "import" /\ prev.ret = 0
      /\ ImportDone
      /\ call.mode = prev.mode
      /\ metadata_dict = prev.metadata_dict
      /\ call.model_path = prev.output_path )
    => Result = Orig

\* a second merge of a non-empty mapping into a list with survivors
C8_Witness ==
    /\ prev.op = "import" /\ prev.ret = 0
    /\ ImportDone
    /\ call.mode = prev.mode /\ call.mode = "merge"
    /\ metadata_dict = prev.metadata_dict
    /\ call.model_path = prev.output_path
    /\ Len(metadata_dict) > 1
    /\ Len(Orig) > Len(metadata_dict)

\* C9: a non-empty line without a tab is skipped with a warning and the import
\* goes on: every record line before and after it is parsed, split on its
\* first tab; empty lines add nothing; the import returns 0.
C9_MalformedLinesSkipped ==
    (call.op = "import" /\ call.txt0.exists) =>
        \A R \in {Records(call.txt0.content)}, Bad \in {BadLines(call.txt0.content)} :
            LET d == metadata_dict
            IN  /\ call.fs0[call.model_path].exists => ret = 0
                /\ \A r \in R : r.key \in KeySet(d)
                /\ \A r \in R :
                      (\A q \in R : q.start > r.start => q.key # r.key)
                      => \E i \in DOMAIN d : d[i] = Prop(r.key, r.value)
                /\ Len(d) <= Cardinality(R)
                /\ Len(stderr.skipped) = Cardinality(Bad)
                /\ \A i \in DOMAIN stderr.skipped :
                      \E b \in Bad : stderr.skipped[i] = b.line

\* a successful import of a file with a record before and a record after a
\* line without a tab, an empty line, and a value that holds a tab
C9_Witness ==
    /\ ImportDone
    /\ LET s == call.txt0.content
           R == RecordStarts(s)
       IN  /\ \E p \in LineStarts(s), a, b \in R :
                 /\ a < p /\ p < b
                 /\ LineAt(s, p) # <<>> /\ ~IsRecord(LineAt(s, p))
           /\ \E p \in LineStarts(s) : LineAt(s, p) = <<>>
           /\ \E i \in DOMAIN metadata_dict :
                 \E t \in DOMAIN metadata_dict[i].value :
                    metadata_dict[i].value[t] = TAB

\* C10: when the metadata file has no record line the import of a loadable
\* model still returns 0, with an empty mapping: replace mode leaves no
\* metadata entry, merge mode leaves the original list as it was.
C10_EmptySource ==
    ( /\ call.op = "import" /\ call.txt0.exists
      /\ RecordStarts(call.txt0.content) = {}
      /\ call.fs0[call.model_path].exists )
    => /\ ret = 0
       /\ metadata_dict = <<>>
       /\ call.mode = "replace" => Result = <<>>
       /\ call.mode = "merge" => Result = Orig

\* a replace from a file of lines without a tab into a model that had metadata
C10_Witness ==
    /\ ImportDone /\ call.mode = "replace"
    /\ call.txt0.content # <<>>
    /\ RecordStarts(call.txt0.content) = {}
    /\ Orig # <<>>

-----------------------------------------------------------------------------
(* Properties of export_metadata *)

\* the last command was an export that returned 0
ExportDone == call.op = "export" /\ ret = 0

\* the metadata list of the model the last export loaded
Exported == call.fs0[call.model_path].metadata_props

\* where the record of entry i ends in a text that holds one record per entry:
\* each record is the key, a tab, the value and a newline
RECURSIVE RecEnd(_, _)
RecEnd(props, i) ==
    IF i = 0 THEN 0
    ELSE RecEnd(props, i - 1) + Len(props[i].key) + Len(props[i].value) + 2

-----------------------------------------------------------------------------
(* Export followed by import, under SpecRoundTrip *)

\* the last two commands were a successful export and then a successful
\* import in replace mode of the file it wrote, into any document
RoundTrip ==
    /\ prev.op = "export" /\ prev.ret = 0
    /\ ImportDone /\ call.mode = "replace"

\* the list the export wrote (an export leaves the model files alone)
Source == call.fs0[prev.model_path].metadata_props

Holds(str, c) == \E i \in DOMAIN str : str[i] = c

\* no tab or newline in a key, no newline in a value
NoTabOrNewline(props) ==
    \A i \in DOMAIN props :
        /\ ~Holds(props[i].key, TAB) /\ ~Holds(props[i].key, NL)
        /\ ~Holds(props[i].value, NL)

NoCarriageReturn(props) ==
    \A i \in DOMAIN props :
        ~Holds(props[i].key, CR) /\ ~Holds(props[i].value, CR)

\* C19 as stated: for a list with unique keys, no tab or newline in a key and
\* no newline in a value, export then import in replace mode yields that
\* list; with a repeated key it yields a shorter list.
C19_RoundTripAsStated ==
    (RoundTrip /\ NoTabOrNewline(Source)) =>
        /\ NoRepeatedKey(Source) => Result = Source
        /\ ~NoRepeatedKey(Source) => Len(Result) < Len(Source)

\* C19 amended: the same, for lists whose keys and values hold no carriage
\* return either; with a repeated key the result is shorter, names the same
\* keys and repeats none.
C19_RoundTrip ==
    (RoundTrip /\ NoTabOrNewline(Source) /\ NoCarriageReturn(Source)) =>
        /\ NoRepeatedKey(Source) => Result = Source
        /\ ~NoRepeatedKey(Source) =>
              /\ Len(Result) < Len(Source)
              /\ KeySet(Result) = KeySet(Source)
              /\ NoRepeatedKey(Result)

\* a round trip into the other document of a list of two entries, one with a
\* tab in its value and one with an empty key and an empty value
C19_Witness ==
    /\ RoundTrip
    /\ prev.model_path = "m1.onnx" /\ call.model_path = "m2.onnx"
    /\ Source = <<Prop(Str("a"), <<"1", TAB, "2">>), Prop(<<>>, <<>>)>>
    /\ Result = Source

-----------------------------------------------------------------------------
(* Properties of the op_type histogram, under SpecOps *)

\* onnx_dump.py has rendered its operators table
DumpListed ==
    console.tool = "dump" /\ console.error = "none" /\ console.show_operators

\* onnx_dump_simple.py has printed its operator list
SimpleListed ==
    console.tool = "simple" /\ console.error = "none" /\ console.show_operators

\* the explorer shows the overview of a model
OverviewShown == overview_text.shown = "overview"

CountRows(rows) ==
    [i \in DOMAIN rows |-> [op_type |-> rows[i].op_type, count |-> rows[i].count]]

\* every histogram on display, with the node list it was computed from
Histograms ==
    (IF DumpListed
     THEN {[node |-> fs[console.model_path].graph.node,
            rows |-> CountRows(console.operators)]}
     ELSE {})
    \cup
    (IF SimpleListed
     THEN {[node |-> fs[console.model_path].graph.node,
            rows |-> CountRows(console.operators.rows)]}
     ELSE {})
    \cup
    (IF OverviewShown
     THEN {[node |-> self_model.graph.node, rows |-> overview_text.op_stats]}
     ELSE {})

NodesWith(node, t) == {i \in DOMAIN node : node[i].op_type = t}

FirstIndex(node, t) ==
    CHOOSE i \in NodesWith(node, t) : \A j \in NodesWith(node, t) : i <= j

\* the listing names every op_type of the graph once, with its number of nodes
CountsEveryOpType(h) ==
    /\ \A i, j \in DOMAIN h.rows : i # j => h.rows[i].op_type # h.rows[j].op_type
    /\ {h.rows[i].op_type : i \in DOMAIN h.rows}
           = {h.node[i].op_type : i \in DOMAIN h.node}
    /\ \A i \in DOMAIN h.rows :
          h.rows[i].count = Cardinality(NodesWith(h.node, h.rows[i].op_type))

\* C12 as stated: every histogram lists the op_types by descending count, and
\* those of equal count by ascending op_type name, so that the listing
\* depends on the multiset of op_types only.
C12_LexicalTieBreak ==
    \A h \in Histograms :
        /\ CountsEveryOpType(h)
        /\ \A i, j \in DOMAIN h.rows :
              i < j => \/ h.rows[i].count > h.rows[j].count
                       \/ /\ h.rows[i].count = h.rows[j].count
                          /\ LexLess(h.rows[i].op_type, h.rows[j].op_type)

\* C12 amended: every histogram lists each op_type once with its count, by
\* descending count, and those of equal count in the order in which they
\* first appear in the node list; the six nodes Conv, Relu, Conv, Add, Relu,
\* Conv are listed as Conv 3, Relu 2, Add 1.
C12_FirstSeenTieBreak ==
    \A h \in Histograms :
        /\ CountsEveryOpType(h)
        /\ \A i, j \in DOMAIN h.rows :
              i < j => \/ h.rows[i].count > h.rows[j].count
                       \/ /\ h.rows[i].count = h.rows[j].count
                          /\ FirstIndex(h.node, h.rows[i].op_type)
                                < FirstIndex(h.node, h.rows[j].op_type)
        /\ h.node = NodesOf(SixNodes) =>
              h.rows = << [op_type |-> Conv, count |-> 3],
                          [op_type |-> Relu, count |-> 2],
                          [op_type |-> Add, count |-> 1] >>

\* the operators table of a graph in which two op_types of equal count appear
\* in descending name order, below an op_type with more nodes
C12_Witness ==
    /\ DumpListed
    /\ \E i, j, k \in DOMAIN console.operators :
          /\ i < j /\ j < k
          /\ console.operators[i].count > console.operators[j].count
          /\ console.operators[j].count = console.operators[k].count
          /\ LexLess(console.operators[k].op_type, console.operators[j].op_type)

-----------------------------------------------------------------------------
(* Properties of the parameter count, under SpecParams *)

\* onnx_dump.py has rendered a model
DumpDone == console.tool = "dump" /\ console.error = "none"

\* onnx_dump_simple.py has printed a model
SimpleDone == console.tool = "simple" /\ console.error = "none"

\* the initializers of the model the last dump command showed
Shown == fs[console.model_path].graph.initializer

\* the product of the dims of an initializer, 0 when it has no dims
Contribution(init) ==
    LET n == Len(init.dims)
        p[j \in 0..n] == IF j = 0 THEN 1 ELSE p[j - 1] * init.dims[j]
    IN  IF n = 0 THEN 0 ELSE p[n]

\* the sum of the contributions of a sequence of initializers
SumOfProducts(initializer) ==
    LET n == Len(initializer)
        t[i \in 0..n] == IF i = 0 THEN 0 ELSE t[i - 1] + Contribution(initializer[i])
    IN  t[n]

\* C13: the total parameter count both dump tools show is the sum over the
\* initializers of the product of their dims, an initializer without dims
\* counting 0; it is 0 without initializers; each row of the initializer table
\* shows the product of that initializer's dims, 0 without dims.
C13_ParameterCount ==
    /\ DumpDone =>
          /\ console.metadata.total_params = SumOfProducts(Shown)
          /\ Shown = <<>> => console.metadata.total_params = 0
          /\ console.show_weights =>
                /\ console.initializers.shown = (Shown # <<>>)
                /\ Len(console.initializers.rows) = Len(Shown)
                /\ \A i \in DOMAIN console.initializers.rows :
                      console.initializers.rows[i].total_elements
                          = Contribution(Shown[i])
    /\ SimpleDone =>
          /\ console.extra.shown = (Shown # <<>>)
          /\ console.extra.shown =>
                console.extra.total_params = SumOfProducts(Shown)

\* a dump with the initializer table of a graph with an initializer without
\* dims and one of two dimensions
C13_Witness ==
    /\ DumpDone /\ console.show_weights
    /\ \E i, j \in DOMAIN Shown :
          Shown[i].dims = <<>> /\ Shown[j].dims = <<999, 1001>>
    /\ console.metadata.total_params = 999999

-----------------------------------------------------------------------------
(* Properties of the rendering of counts, under SpecParams *)

\* every count on display with the text it is rendered as
RenderedCounts ==
    (IF DumpDone
     THEN {[n |-> console.metadata.total_params,
            text |-> console.metadata.params_str]}
          \cup {[n |-> console.initializers.rows[i].total_elements,
                 text |-> console.initializers.rows[i].elements_str] :
                    i \in DOMAIN console.initializers.rows}
     ELSE {})
    \cup
    (IF SimpleDone /\ console.extra.shown
     THEN {[n |-> console.extra.total_params, text |-> console.extra.params_str]}
     ELSE {})

Last(str) == str[Len(str)]

\* C14: every count on display is rendered by one rule: the plain integer
\* below 1,000, suffix K from 1,000 and suffix M from 1,000,000, with the same
\* number of decimals at every site, so that equal counts read the same; 999
\* reads "999", 1000 reads "1.00K", 999999 ends in K and 1000000 reads "1.00M".
C14_OneRenderingRule ==
    /\ \A a, b \in RenderedCounts : a.n = b.n => a.text = b.text
    /\ \A a \in RenderedCounts :
          /\ a.n < 1000 => a.text = IntToStr(a.n)
          /\ (a.n >= 1000 /\ a.n < 1000000) => Last(a.text) = "K"
          /\ a.n >= 1000000 => Last(a.text) = "M"
          /\ a.n = 999 => a.text = <<"9", "9", "9">>
          /\ a.n = 1000 => a.text = <<"1", ".", "0", "0", "K">>
          /\ a.n = 1000000 => a.text = <<"1", ".", "0", "0", "M">>

-----------------------------------------------------------------------------
(* Properties of the rendering of shapes, under SpecShapes *)

TensorTexts(tensors, rendered) ==
    {[dim |-> tensors[i].dim, text |-> rendered[i].shape] : i \in DOMAIN tensors}

\* every shape on display in onnx_dump_simple.py and in the explorer, with the
\* dimension list it renders
RenderedShapes ==
    (IF SimpleDone
     THEN TensorTexts(fs[console.model_path].graph.input, console.inputs)
          \cup TensorTexts(fs[console.model_path].graph.output, console.outputs)
     ELSE {})
    \cup
    (IF self_model.exists
     THEN TensorTexts(self_model.graph.input \o self_model.graph.output, io_table)
          \cup TensorTexts(self_model.graph.input, structure_tree[1].children)
          \cup TensorTexts(self_model.graph.output,
                           structure_tree[Len(structure_tree)].children)
     ELSE {})

\* where a ", " separator starts in a text
Separators(str) == {i \in 1..(Len(str) - 1) : str[i] = "," /\ str[i + 1] = " "}

\* the tokens of the text between the brackets: the pieces between separators
TokensOf(str) ==
    LET seps     == Separators(str)
        n        == Cardinality(seps) + 1
        Sep(k)   == CHOOSE i \in seps : Cardinality({j \in seps : j <= i}) = k
        Start(k) == IF k = 1 THEN 1 ELSE Sep(k - 1) + 2
        End(k)   == IF k = n THEN Len(str) ELSE Sep(k) - 1
    IN  IF str = <<>> THEN <<>>
        ELSE [k \in 1..n |-> SubSeq(str, Start(k), End(k))]

\* tok is the decimal numeral of the positive integer v
IsDecimalOf(tok, v) ==
    /\ tok # <<>>
    /\ \A i \in DOMAIN tok : \E d \in 0..9 : tok[i] = Digits[d + 1]
    /\ tok[1] # "0"
    /\ LET DigitOf(c) == CHOOSE d \in 0..9 : Digits[d + 1] = c
           val[i \in 0..Len(tok)] ==
               IF i = 0 THEN 0 ELSE 10 * val[i - 1] + DigitOf(tok[i])
       IN  val[Len(tok)] = v

\* C15: a rendered shape is "[", one token per dimension separated by ", ",
\* and "]"; a token is the decimal value of its dimension exactly when that
\* value is strictly positive; for a value <= 0 it is the dimension's name
\* when it has one and "?" otherwise; no dimension gives no token.
C15_DimensionTokens ==
    \A r \in RenderedShapes :
        /\ Len(r.text) >= 2 /\ r.text[1] = "[" /\ r.text[Len(r.text)] = "]"
        /\ \A tokens \in {TokensOf(SubSeq(r.text, 2, Len(r.text) - 1))} :
              /\ Len(tokens) = Len(r.dim)
              /\ \A i \in DOMAIN tokens :
                    /\ r.dim[i].dim_value > 0 =>
                          IsDecimalOf(tokens[i], r.dim[i].dim_value)
                    /\ (r.dim[i].dim_value <= 0 /\ r.dim[i].dim_param # <<>>) =>
                          tokens[i] = r.dim[i].dim_param
                    /\ (r.dim[i].dim_value <= 0 /\ r.dim[i].dim_param = <<>>) =>
                          tokens[i] = <<"?">>
        /\ r.dim = <<>> => r.text = <<"[", "]">>

\* onnx_dump_simple.py has printed an input of shape (-1, 12) as "[?, 12]"
C15_Witness ==
    /\ SimpleDone
    /\ \E i \in DOMAIN console.inputs :
          /\ fs[console.model_path].graph.input[i].dim
                = <<Dim(-1, <<>>), Dim(12, <<>>)>>
          /\ console.inputs[i].shape = <<"[", "?", ",", " ", "1", "2", "]">>

-----------------------------------------------------------------------------
(* Properties of the explorer's structure tree, under SpecOps and SpecParams *)

\* the op_type groups under the tree's nodes branch
TreeGroups == structure_tree[2].children

\* the sizes the group labels report, added up
SumOfSizes(groups) ==
    LET sum[i \in 0..Len(groups)] ==
            IF i = 0 THEN 0 ELSE sum[i - 1] + groups[i].size
    IN  sum[Len(groups)]

\* where in graph.node the p-th child of a group stands
PositionOf(node, n) == CHOOSE k \in DOMAIN node : node[k] = n

\* C16: in the tree of the held model the nodes are grouped by op_type, the
\* groups stand in ascending lexical order of op_type, every node of
\* graph.node is a child of exactly one group, the children of a group keep
\* their relative order from graph.node, and the group sizes add up to the
\* number of nodes.
C16_GroupedByOpType ==
    self_model.exists =>
        \A node \in {self_model.graph.node} : \A groups \in {TreeGroups} :
            /\ \A i, j \in DOMAIN groups :
                  i < j => LexLess(groups[i].label, groups[j].label)
            /\ \A i \in DOMAIN groups :
                  /\ groups[i].size = Len(groups[i].children)
                  /\ \A p \in DOMAIN groups[i].children :
                        /\ groups[i].children[p].op_type = groups[i].label
                        /\ \E k \in DOMAIN node : node[k] = groups[i].children[p]
                  /\ \A p, q \in DOMAIN groups[i].children :
                        p < q => PositionOf(node, groups[i].children[p])
                                    < PositionOf(node, groups[i].children[q])
            /\ \A k \in DOMAIN node :
                  Cardinality({ip \in {<<i, p>> : i \in DOMAIN groups,
                                                 p \in 1..Len(node)} :
                                  /\ ip[2] <= Len(groups[ip[1]].children)
                                  /\ groups[ip[1]].children[ip[2]] = node[k]}) = 1
            /\ SumOfSizes(groups) = Len(node)

\* the explorer holds the graph Conv, Relu, Conv, Add, Relu, Conv and its tree
\* shows the groups Add (1), Conv (3), Relu (2), not the first-seen order
C16_Witness ==
    /\ self_model.exists
    /\ [k \in DOMAIN self_model.graph.node |-> self_model.graph.node[k].op_type]
          = SixNodes
    /\ [i \in DOMAIN TreeGroups |-> <<TreeGroups[i].label, TreeGroups[i].size>>]
          = << <<Add, 1>>, <<Conv, 3>>, <<Relu, 2>> >>

\* the labels of the tree's top-level items, in order
TreeLabels == [i \in DOMAIN structure_tree |-> structure_tree[i].label]

FourBranches == <<"[IN]", "[OP]", "[W]", "[OUT]">>

\* C17 as stated: the tree of every held model has the four branches inputs,
\* nodes, initializers, outputs in that order, and a graph without nodes or
\* without initializers has that branch present and empty.
C17_AlwaysFourBranches ==
    self_model.exists =>
        /\ TreeLabels = FourBranches
        /\ self_model.graph.node = <<>> => structure_tree[2].children = <<>>
        /\ self_model.graph.initializer = <<>> => structure_tree[3].children = <<>>

\* C17: the tree of every held model has the branches inputs, nodes and
\* outputs in that order, with the initializers branch between nodes and
\* outputs exactly when the graph has an initializer; a graph without nodes
\* has the nodes branch present and empty, and every branch holds one child
\* per tensor (the nodes branch one child per op_type).
C17_BranchesOfTree ==
    self_model.exists =>
        \A graph \in {self_model.graph} :
            /\ TreeLabels = IF graph.initializer # <<>> THEN FourBranches
                            ELSE <<"[IN]", "[OP]", "[OUT]">>
            /\ Len(structure_tree[1].children) = Len(graph.input)
            /\ Len(structure_tree[2].children)
                  = Cardinality({graph.node[k].op_type : k \in DOMAIN graph.node})
            /\ graph.node = <<>> => structure_tree[2].children = <<>>
            /\ graph.initializer # <<>> =>
                  structure_tree[3].children = graph.initializer
            /\ Len(structure_tree[Len(structure_tree)].children)
                  = Len(graph.output)

\* the explorer holds a graph without nodes and without initializers: its
\* tree has an empty nodes branch and no initializers branch
C17_Witness ==
    /\ self_model.exists
    /\ self_model.graph.node = <<>>
    /\ self_model.graph.initializer = <<>>
    /\ TreeLabels = <<"[IN]", "[OP]", "[OUT]">>
    /\ structure_tree[2].children = <<>>

-----------------------------------------------------------------------------
(* Properties of the operator table of onnx_dump.py, under SpecOps *)

\* the node list the operator table on display was computed from
TableNodes == fs[console.model_path].graph.node

\* no dump command ended in a division by zero
NoDivisionFault ==
    /\ console.error # "ZeroDivisionError"
    /\ DumpListed => \A i \in DOMAIN console.operators :
                        console.operators[i].error = "none"

\* the counts of the table add up to the number of nodes
CountsSumToNodes ==
    DumpListed =>
        LET rows == console.operators
            sum[i \in 0..Len(rows)] ==
                IF i = 0 THEN 0 ELSE sum[i - 1] + rows[i].count
        IN  sum[Len(rows)] = Len(TableNodes)

BarsInRange ==
    DumpListed => \A i \in DOMAIN console.operators :
                     console.operators[i].bar_length \in 0..50

\* floor((100 * count / total) / 2) = floor(100 * count / (2 * total))
BarsAreExactFloor ==
    DumpListed => \A i \in DOMAIN console.operators :
                     console.operators[i].bar_length
                        = (100 * console.operators[i].count) \div (2 * Len(TableNodes))

\* C18 as stated: no operator table divides by zero, also for a graph without
\* nodes; the bar of an op_type is floor(percentage / 2) for the percentage
\* 100 * count / total_node_count, so it lies between 0 and 50; the counts of
\* the table add up to the number of nodes.
C18_PercentagesAndBars ==
    /\ NoDivisionFault
    /\ BarsAreExactFloor
    /\ BarsInRange
    /\ CountsSumToNodes

-----------------------------------------------------------------------------
(* Properties of the explorer's load button, under SpecGui *)

\* the held model, its path, the tree, the I/O table and the graph pane are
\* what they were before the last load attempt
HeldAsBefore ==
    /\ self_model = before.self_model
    /\ self_model_path = before.self_model_path
    /\ structure_tree = before.structure_tree
    /\ io_table = before.io_table
    /\ graph_text = before.graph_text

\* the last load attempt was reported as failed, or had no path to load
LoadFailed == before.op = "load" /\ status.kind \in {"failed", "no file"}

\* the last load attempt was reported as successful
LoadSucceeded == before.op = "load" /\ status.kind = "ok"

\* a load that check_model or onnx.load rejects, or one without a path,
\* leaves model, path, tree, table, graph pane and detail pane alone
RejectedLoadFrame ==
    before.outcome \in {"failed", "empty"} =>
        HeldAsBefore /\ node_detail_text = before.node_detail_text

\* model and path are replaced together
ModelAndPathTogether ==
    /\ LoadSucceeded => (self_model = fs[before.path]
                         /\ self_model_path = before.path)
    /\ self_model.exists <=> self_model_path # "None"
    /\ self_model.exists => self_model = fs[self_model_path]

\* C20 as stated: a load attempt that is reported as failed, or has an empty
\* path, leaves the held model, its path, the structure tree, the I/O table
\* and the graph pane as they were, so they stay as the most recent successful
\* load left them; it changes nothing but the overview pane and the status
\* bar; a successful load replaces model and path together.
C20_FailedLoadFrame ==
    /\ LoadFailed => (HeldAsBefore /\ node_detail_text = before.node_detail_text)
    /\ self_model.exists =>
          /\ structure_tree = UpdateStructureTree(self_model.graph)
          /\ io_table = UpdateIoTable(self_model.graph)
          /\ graph_text = UpdateGraphInfo(self_model.graph)
    /\ ModelAndPathTogether

=============================================================================
